---- MODULE Spec2Model ----
(***************************************************************************)
(* Model of the Prepack debug server (src/debugger/server/Debugger.js):    *)
(* the blocking command loop waitForRun, the request dispatcher            *)
(* processDebuggerCommand, the checkpoint hook checkForActions, the        *)
(* diagnostic pause handlePrepackError, the stack/scope assembly and the   *)
(* path and severity helpers.                                              *)
(*                                                                         *)
(* A file path is a sequence of one-character strings.  A source location  *)
(* is a record [defined, source, line, column]; the locations live in the  *)
(* AST, and the debugger holds REFERENCES to them (a node id), because     *)
(* processDebuggerCommand assigns to loc.source of the object it is given. *)
(***************************************************************************)
EXTENDS Integers, Sequences, FiniteSets, TLC

(***************************************************************************)
(* Bounds of the model.                                                    *)
(***************************************************************************)
MaxFrameId == 2
MaxHandle == 2
MaxPathLen == 3
MaxPrefixLen == 2

(***************************************************************************)
(* Strings: String.prototype.replace(pattern, "") with a string pattern    *)
(* removes the first occurrence of the pattern, wherever it is.            *)
(***************************************************************************)
OccursAt(s, p, i) ==
  /\ i + Len(p) - 1 <= Len(s)
  /\ \A k \in 1..Len(p) : s[i + k - 1] = p[k]

FirstIndex(s, p) ==
  IF \E i \in 1..(Len(s) + 1) : OccursAt(s, p, i)
  THEN CHOOSE i \in 1..(Len(s) + 1) :
         /\ OccursAt(s, p, i)
         /\ \A j \in 1..(i - 1) : ~OccursAt(s, p, j)
  ELSE 0

LastIndex(s, p) ==
  IF \E i \in 1..(Len(s) + 1) : OccursAt(s, p, i)
  THEN CHOOSE i \in 1..(Len(s) + 1) :
         /\ OccursAt(s, p, i)
         /\ \A j \in (i + 1)..(Len(s) + 1) : ~OccursAt(s, p, j)
  ELSE 0

\* a replacement that removes the last occurrence of the pattern
ReplaceLast(s, p) ==
  IF LastIndex(s, p) = 0
  THEN s
  ELSE SubSeq(s, 1, LastIndex(s, p) - 1) \o SubSeq(s, LastIndex(s, p) + Len(p), Len(s))

ReplaceFirst(s, p) ==
  IF FirstIndex(s, p) = 0
  THEN s
  ELSE SubSeq(s, 1, FirstIndex(s, p) - 1) \o SubSeq(s, FirstIndex(s, p) + Len(p), Len(s))

StartsWith(s, p) == OccursAt(s, p, 1)

(***************************************************************************)
(* Values.  NullSource is the null source of a location; a path never      *)
(* contains a multi-character element, so it is no path.                   *)
(***************************************************************************)
NullSource == <<"null">>
Unknown == <<"u", "n", "k", "n", "o", "w", "n">>
Truthy(source) == source # NullSource /\ source # <<>>

Loc(source, line, column) ==
  [defined |-> TRUE, source |-> source, line |-> line, column |-> column]
Undefined == [defined |-> FALSE, source |-> NullSource, line |-> 0, column |-> 0]

(***************************************************************************)
(* The program under debug: AST nodes 1..3 and the location object of      *)
(* each.  Node 2's relative path contains the prefix "p"; node 3 has a     *)
(* location without a source; NoNode stands for "no location object".      *)
(***************************************************************************)
Nodes == 1..3
NoNode == 0
InitialAst ==
  <<Loc(<<"a">>, 1, 0), Loc(<<"p", "p", "a">>, 2, 0), Loc(NullSource, 3, 0)>>

Prefixes == {<<>>, <<"p">>}
Severities == {"Information", "Warning", "RecoverableError", "FatalError"}
NoSeverity == "undefined"

(***************************************************************************)
(* The engine's execution contexts: invocation location (a node or none),  *)
(* the called function's __originalName ("" when it has none) and the      *)
(* innermost lexical environment.  Environments are parent-linked.         *)
(***************************************************************************)
Envs == 1..4
NoEnv == 0
EnvParent == <<NoEnv, 1, 4, 1>>
EnvKind == <<"Global", "Function", "Declarative", "Object">>
EnvFunctionName == <<"", "f", "", "">>
EnvVariables == <<<<"x">>, <<"y">>, <<"z">>, <<"w">>>>

Frame(loc, fn, env) == [loc |-> loc, function |-> fn, lexicalEnvironment |-> env]
GlobalFrame == Frame(NoNode, "", 1)
FunctionFrame == Frame(1, "f", 2)

(***************************************************************************)
(* The engine runs a program: a sequence of events, each a call, a return, *)
(* a checkpoint before the unit of a node, or a place where it may report  *)
(* a diagnostic at a node.                                                 *)
(***************************************************************************)
Event(event, node, frame) == [event |-> event, node |-> node, frame |-> frame]
Call(frame) == Event("call", NoNode, frame)
Return == Event("return", NoNode, GlobalFrame)
Checkpoint(n) == Event("checkpoint", n, GlobalFrame)
Diagnostic(n) == Event("diagnostic", n, GlobalFrame)

Program ==
  <<Checkpoint(1), Call(GlobalFrame), Checkpoint(1), Diagnostic(2), Checkpoint(1),
    Call(FunctionFrame), Checkpoint(1), Checkpoint(2), Checkpoint(2), Checkpoint(3),
    Checkpoint(NoNode), Checkpoint(2), Return, Checkpoint(2), Checkpoint(1),
    Diagnostic(3), Diagnostic(NoNode)>>

VARIABLES
  configArgs,          \* the configArgs the constructor was given
  call,                \* the last call of a path translation, its argument and result
  sourcemapPrefix,     \* this._sourcemapPrefix
  diagnosticSeverity,  \* this._diagnosticSeverity
  ast,                 \* node id -> location object (mutable: loc.source)
  contextStack,        \* this._realm.contextStack, innermost last
  lastExecuted,        \* this._lastExecuted
  breakpoints,         \* BreakpointManager: set of [filePath, line, column, enabled]
  steppers,            \* SteppingManager: sequence of in-flight steps
  references,          \* VariableManager: handle -> environment
  nextReference,       \* VariableManager: next handle to issue
  pc,                  \* "waiting" (in waitForRun), "running", "thrown", "shutdown"
  ip,                  \* the engine's position in the program
  loc,                 \* the loc argument of the active waitForRun: a node or NoNode
  out,                 \* messages sent on the channel by the last operation
  lastOp,              \* the last operation, its input and its outcome
  prevUnit,            \* (file, line, column, depth) of the last checkForActions call
  stale                \* the handles issued before the last resume-class command

vars == <<configArgs, call, sourcemapPrefix, diagnosticSeverity, ast, contextStack, lastExecuted,
          breakpoints, steppers, references, nextReference, pc, ip, loc, out,
          lastOp, prevUnit, stale>>

(***************************************************************************)
(* Path Translator.  A translation records one call: the function, its     *)
(* argument and result and, when the argument is the result of the call    *)
(* before, that call's function and argument.                              *)
(***************************************************************************)
Translation(op, arg, ret, prevOp, prevArg) ==
  [op |-> op, arg |-> arg, ret |-> ret, prevOp |-> prevOp, prevArg |-> prevArg]
NoTranslation == Translation("", <<>>, <<>>, "", <<>>)

\* a translator that forgets the prefix
RelativeToAbsoluteNoPrefix(path) == path

_relativeToAbsolute(path) == sourcemapPrefix \o path

_absoluteToRelative(path) == ReplaceFirst(path, sourcemapPrefix)

(***************************************************************************)
(* Last-Executed Marker.                                                   *)
(***************************************************************************)
NoMarker == [set |-> FALSE, filePath |-> <<>>, line |-> 0, column |-> 0, stackSize |-> 0]
Marker(l, size) ==
  [set |-> TRUE, filePath |-> l.source, line |-> l.line, column |-> l.column,
   stackSize |-> size]

LocIn(a, n) == IF n = NoNode THEN Undefined ELSE a[n]
LocOf(n) == LocIn(ast, n)
\* a test that asks for a location and not for its source
HasLocation(l) == l.defined

HasSource(l) == l.defined /\ Truthy(l.source)

\* a comparison that reads the marker's column where it means its line
SameAsLastExecutedWrongField(l, size) ==
  /\ lastExecuted.set
  /\ l.source = lastExecuted.filePath
  /\ l.line = lastExecuted.column
  /\ l.column = lastExecuted.column
  /\ size = lastExecuted.stackSize

\* the comparison of _checkAndUpdateLastExecuted: is l at depth size the marker?
SameAsLastExecuted(l, size) ==
  /\ lastExecuted.set
  /\ l.source = lastExecuted.filePath
  /\ l.line = lastExecuted.line
  /\ l.column = lastExecuted.column
  /\ size = lastExecuted.stackSize

\* a check that never suppresses a unit that has a source
CheckAndUpdateNeverSuppresses(l) == HasSource(l)

\* the value _checkAndUpdateLastExecuted returns for a unit with location l
_checkAndUpdateLastExecuted(l) ==
  HasSource(l) /\ ~SameAsLastExecuted(l, Len(contextStack))

\* the marker _checkAndUpdateLastExecuted leaves behind
LastExecutedAfter(l) ==
  IF _checkAndUpdateLastExecuted(l) THEN Marker(l, Len(contextStack)) ELSE lastExecuted

(***************************************************************************)
(* BreakpointManager: breakpoints keyed on (relative path, line, column).  *)
(***************************************************************************)
SameKey(b, bp) ==
  b.filePath = bp.filePath /\ b.line = bp.line /\ b.column = bp.column

Stored(bp, enabled) ==
  [filePath |-> bp.filePath, line |-> bp.line, column |-> bp.column, enabled |-> enabled]

addBreakpoint(bs, bp) == {b \in bs : ~SameKey(b, bp)} \cup {Stored(bp, TRUE)}
removeBreakpoint(bs, bp) == {b \in bs : ~SameKey(b, bp)}
enableBreakpoint(bs, bp) == {IF SameKey(b, bp) THEN Stored(b, TRUE) ELSE b : b \in bs}
disableBreakpoint(bs, bp) == {IF SameKey(b, bp) THEN Stored(b, FALSE) ELSE b : b \in bs}

RECURSIVE ApplyMulti(_, _, _)
ApplyMulti(command, bs, bps) ==
  IF bps = <<>>
  THEN bs
  ELSE ApplyMulti(command,
                  CASE command = "breakpoint-add" -> addBreakpoint(bs, Head(bps))
                    [] command = "breakpoint-remove" -> removeBreakpoint(bs, Head(bps))
                    [] command = "breakpoint-enable" -> enableBreakpoint(bs, Head(bps))
                    [] command = "breakpoint-disable" -> disableBreakpoint(bs, Head(bps)),
                  Tail(bps))

\* the stoppables contributed by the breakpoint registry at location l
getStoppableBreakpoint(l) ==
  IF \E b \in breakpoints :
       b.enabled /\ b.filePath = l.source /\ b.line = l.line /\ b.column = l.column
  THEN <<"Breakpoint">>
  ELSE <<>>

(***************************************************************************)
(* SteppingManager: in-flight steps, each with its direction, its origin   *)
(* and the call-stack depth at which it was registered.                    *)
(***************************************************************************)
Stepper(direction, l, size) ==
  [direction |-> direction, source |-> l.source, line |-> l.line, column |-> l.column,
   stackSize |-> size]

\* the manager is built to discard the old steps when a new one is registered
processStepCommand(direction, l) == <<Stepper(direction, l, Len(contextStack))>>

LocationChanged(st, l) ==
  st.source # l.source \/ st.line # l.line \/ st.column # l.column

isComplete(st, l, size) ==
  CASE st.direction = "in" -> LocationChanged(st, l)
    [] st.direction = "over" ->
         size < st.stackSize \/ (size = st.stackSize /\ LocationChanged(st, l))
    [] st.direction = "out" -> size < st.stackSize

StepReason(st) ==
  CASE st.direction = "in" -> "Step Into"
    [] st.direction = "over" -> "Step Over"
    [] st.direction = "out" -> "Step Out"

CompletedSteppers(l) ==
  SelectSeq(steppers, LAMBDA st : isComplete(st, l, Len(contextStack)))

RemainingSteppers(l) ==
  SelectSeq(steppers, LAMBDA st : ~isComplete(st, l, Len(contextStack)))

(***************************************************************************)
(* StopEventManager: at most one reason out of the candidates.             *)
(***************************************************************************)
NoReason == ""

RECURSIVE Reasons(_)
Reasons(sts) ==
  IF sts = <<>> THEN <<>> ELSE <<StepReason(Head(sts))>> \o Reasons(Tail(sts))

getDebuggeeStopReason(stoppables) ==
  IF stoppables = <<>> THEN NoReason ELSE Head(stoppables)

(***************************************************************************)
(* VariableManager: the variable-reference table.                          *)
(***************************************************************************)
NoReferences == <<>>

ReferenceOf(refs, env) ==
  IF \E h \in DOMAIN refs : refs[h] = env
  THEN CHOOSE h \in DOMAIN refs : refs[h] = env
  ELSE 0

\* the table after getReferenceForValue(env), with `next` the next free handle
RegisterReference(refs, next, env) ==
  IF ReferenceOf(refs, env) # 0
  THEN refs
  ELSE [h \in DOMAIN refs \cup {next} |-> IF h = next THEN env ELSE refs[h]]

getVariablesByReference(h) ==
  IF h \in DOMAIN references THEN EnvVariables[references[h]] ELSE <<>>

evaluate(frameId, expression) ==
  IF frameId >= 0 /\ frameId < Len(contextStack)
  THEN <<"value", expression>>
  ELSE <<"error", expression>>

(***************************************************************************)
(* Requests and messages of the channel.                                   *)
(***************************************************************************)
Args(kind, bps, frameId, ref, expression) ==
  [kind |-> kind, breakpoints |-> bps, frameId |-> frameId,
   variablesReference |-> ref, expression |-> expression]

Request(id, command, args) == [id |-> id, command |-> command, arguments |-> args]

NoArgs == Args("", <<>>, 0, 0, "")
NoRequest == Request(0, "", NoArgs)

BreakpointCommands ==
  {"breakpoint-add", "breakpoint-remove", "breakpoint-enable", "breakpoint-disable"}
StepCommands == {"step-in", "step-over", "step-out"}
ResumeCommands == {"run"} \cup StepCommands
InspectCommands == {"stack-frames", "scopes", "variables", "evaluate"}
Commands == BreakpointCommands \cup ResumeCommands \cup InspectCommands

\* the arguments kind that goes with a command
KindOf(command) ==
  CASE command \in BreakpointCommands -> "breakpoint"
    [] command = "run" -> "run"
    [] command = "stack-frames" -> "stackframe"
    [] command = "scopes" -> "scopes"
    [] command = "variables" -> "variables"
    [] command = "evaluate" -> "evaluate"
    [] command = "step-in" -> "stepInto"
    [] command = "step-over" -> "stepOver"
    [] command = "step-out" -> "stepOut"
    [] OTHER -> ""

Acknowledge(command) == command \o "-acknowledge"

NoMessage == ""
Stopped(reason, filePath, line, column, message) ==
  [type |-> "stopped", reason |-> reason, filePath |-> filePath, line |-> line,
   column |-> column, message |-> message]
BreakpointsAcknowledge(ack, id, args) ==
  [type |-> ack, id |-> id, breakpoints |-> args.breakpoints]
StackframeResponse(id, frameInfos) ==
  [type |-> "stackframes-response", id |-> id, stackframes |-> frameInfos]
ScopesResponse(id, scopes) ==
  [type |-> "scopes-response", id |-> id, scopes |-> scopes]
VariablesResponse(id, variables) ==
  [type |-> "variables-response", id |-> id, variables |-> variables]
EvaluateResponse(id, result) ==
  [type |-> "evaluate-response", id |-> id, result |-> result]

(***************************************************************************)
(* Frame/Scope Assembler.                                                  *)
(***************************************************************************)
_getFrameLocation(l) ==
  IF l.defined /\ Truthy(l.source)
  THEN [fileName |-> l.source, line |-> l.line, column |-> l.column]
  ELSE [fileName |-> Unknown, line |-> 0, column |-> 0]

FunctionName(frame) ==
  IF frame.function # "" THEN frame.function ELSE "(anonymous function)"

\* frame ids that count from the bottom of the call stack
StackframeInfoIdFromBottom(i, shown) ==
  [id |-> i - 1,
   functionName |-> FunctionName(contextStack[i]),
   fileName |-> _relativeToAbsolute(shown.fileName),
   line |-> shown.line,
   column |-> shown.column]

\* the frame pushed for call-stack slot i (1-based; JavaScript's slot i - 1)
StackframeInfo(i, shown) ==
  [id |-> Len(contextStack) - i,
   functionName |-> FunctionName(contextStack[i]),
   fileName |-> _relativeToAbsolute(shown.fileName),
   line |-> shown.line,
   column |-> shown.column]

\* the loop of processStackframesCommand from slot i down, showing `shown` first
RECURSIVE StackframesFrom(_, _, _)
StackframesFrom(a, i, shown) ==
  IF i < 1
  THEN <<>>
  ELSE <<StackframeInfo(i, shown)>>
         \o StackframesFrom(a, i - 1, _getFrameLocation(LocIn(a, contextStack[i].loc)))

processStackframesCommand(a, astLoc) ==
  StackframesFrom(a, Len(contextStack), _getFrameLocation(astLoc))

_getScopeName(env) ==
  CASE EnvKind[env] = "Global" -> "Global"
    [] EnvKind[env] = "Function" ->
         "Local: " \o (IF EnvFunctionName[env] # "" THEN EnvFunctionName[env]
                       ELSE "anonymous function")
    [] EnvKind[env] = "Declarative" -> "Block"
    [] EnvKind[env] = "Object" -> "With"

ValidFrameId(frameId) == ~(frameId < 0 \/ frameId >= Len(contextStack))

\* a slot counted from the bottom of the call stack
StackIndexFromBottom(frameId) == frameId + 1

\* the call-stack slot (1-based) a frame id selects
StackIndex(frameId) == Len(contextStack) - 1 - frameId + 1

\* the walk of processScopesCommand along the environment chain from env
RECURSIVE ScopesFrom(_, _, _)
ScopesFrom(env, refs, next) ==
  IF env = NoEnv
  THEN [scopes |-> <<>>, references |-> refs, nextReference |-> next]
  ELSE LET known == ReferenceOf(refs, env) # 0
           handle == IF known THEN ReferenceOf(refs, env) ELSE next
           rest == ScopesFrom(EnvParent[env], RegisterReference(refs, next, env),
                              IF known THEN next ELSE next + 1)
       IN  [scopes |-> <<[name |-> _getScopeName(env), variablesReference |-> handle,
                          expensive |-> FALSE]>> \o rest.scopes,
            references |-> rest.references,
            nextReference |-> rest.nextReference]

processScopesCommand(frameId) ==
  ScopesFrom(contextStack[StackIndex(frameId)].lexicalEnvironment, references,
             nextReference)

(***************************************************************************)
(* Command Dispatcher.  An effect is what processing one request does:     *)
(* its result ("block" for false, "resume" for true, or the error thrown), *)
(* the collaborators' state afterwards and the messages sent.              *)
(***************************************************************************)
Effect(result, error, bs, sts, refs, next, msgs) ==
  [result |-> result, error |-> error, breakpoints |-> bs, steppers |-> sts,
   references |-> refs, nextReference |-> next, out |-> msgs]

NoEffect(result, error) ==
  Effect(result, error, breakpoints, steppers, references, nextReference, <<>>)

InvariantViolation == NoEffect("InvariantViolation", "Invariant Violation")
DebuggerError(message) == NoEffect("DebuggerError", message)

\* a resume that forgets to reset the variable manager
OnDebuggeeResumeKeepsTable(refs) == refs

\* actions that need to happen before Prepack can resume: the table afterwards
_onDebuggeeResume(refs) == NoReferences

\* a breakpoint command that updates the registry and sends no acknowledgment
BreakpointCommandNoAcknowledge(request) ==
  IF request.arguments.kind # "breakpoint"
  THEN InvariantViolation
  ELSE [NoEffect("block", "") EXCEPT
          !.breakpoints =
             ApplyMulti(request.command, breakpoints, request.arguments.breakpoints)]

BreakpointCommand(request) ==
  IF request.arguments.kind # "breakpoint"
  THEN InvariantViolation
  ELSE [NoEffect("block", "") EXCEPT
          !.breakpoints =
             ApplyMulti(request.command, breakpoints, request.arguments.breakpoints),
          !.out = <<BreakpointsAcknowledge(Acknowledge(request.command), request.id,
                                           request.arguments)>>]

RunCommand(request) ==
  IF request.arguments.kind # "run"
  THEN InvariantViolation
  ELSE [NoEffect("resume", "") EXCEPT !.references = _onDebuggeeResume(references)]

StackframesCommand(request, a, l) ==
  IF request.arguments.kind # "stackframe"
  THEN InvariantViolation
  ELSE [NoEffect("block", "") EXCEPT
          !.out = <<StackframeResponse(request.id, processStackframesCommand(a, l))>>]

ScopesCommand(request) ==
  IF request.arguments.kind # "scopes"
  THEN InvariantViolation
  ELSE IF ~ValidFrameId(request.arguments.frameId)
  THEN DebuggerError("Invalid frame id for scopes request: "
                       \o ToString(request.arguments.frameId))
  ELSE LET walk == processScopesCommand(request.arguments.frameId)
       IN  [NoEffect("block", "") EXCEPT
              !.references = walk.references,
              !.nextReference = walk.nextReference,
              !.out = <<ScopesResponse(request.id, walk.scopes)>>]

VariablesCommand(request) ==
  IF request.arguments.kind # "variables"
  THEN InvariantViolation
  ELSE [NoEffect("block", "") EXCEPT
          !.out = <<VariablesResponse(request.id,
                      getVariablesByReference(request.arguments.variablesReference))>>]

\* an evaluate case that returns true, as the run case does
EvaluateCommandResumes(request) ==
  IF request.arguments.kind # "evaluate"
  THEN InvariantViolation
  ELSE [NoEffect("resume", "") EXCEPT
          !.out = <<EvaluateResponse(request.id,
                      evaluate(request.arguments.frameId, request.arguments.expression))>>]

EvaluateCommand(request) ==
  IF request.arguments.kind # "evaluate"
  THEN InvariantViolation
  ELSE [NoEffect("block", "") EXCEPT
          !.out = <<EvaluateResponse(request.id,
                      evaluate(request.arguments.frameId, request.arguments.expression))>>]

Direction(command) ==
  CASE command = "step-in" -> "in"
    [] command = "step-over" -> "over"
    [] command = "step-out" -> "out"

\* a step command that does not require a current location
StepCommandNoInvariant(request, l) ==
  [NoEffect("resume", "") EXCEPT
     !.steppers = processStepCommand(Direction(request.command), l),
     !.references = _onDebuggeeResume(references)]

StepCommand(request, l) ==
  IF ~l.defined
  THEN InvariantViolation
  ELSE [NoEffect("resume", "") EXCEPT
          !.steppers = processStepCommand(Direction(request.command), l),
          !.references = _onDebuggeeResume(references)]

\* a switch whose default case ignores the request
ProcessDebuggerCommandIgnoresUnknown(request, a, l) ==
  CASE request.command \in BreakpointCommands -> BreakpointCommand(request)
    [] request.command = "run" -> RunCommand(request)
    [] request.command = "stack-frames" -> StackframesCommand(request, a, l)
    [] request.command = "scopes" -> ScopesCommand(request)
    [] request.command = "variables" -> VariablesCommand(request)
    [] request.command \in StepCommands -> StepCommand(request, l)
    [] request.command = "evaluate" -> EvaluateCommand(request)
    [] OTHER -> NoEffect("block", "")

\* the switch of processDebuggerCommand; a is the AST and l the current location,
\* both after the conversion of loc.source
processDebuggerCommand(request, a, l) ==
  CASE request.command \in BreakpointCommands -> BreakpointCommand(request)
    [] request.command = "run" -> RunCommand(request)
    [] request.command = "stack-frames" -> StackframesCommand(request, a, l)
    [] request.command = "scopes" -> ScopesCommand(request)
    [] request.command = "variables" -> VariablesCommand(request)
    [] request.command \in StepCommands -> StepCommand(request, l)
    [] request.command = "evaluate" -> EvaluateCommand(request)
    [] OTHER -> DebuggerError("Invalid command from adapter: " \o request.command)

\* the AST after "if (loc && loc.source) loc.source = _absoluteToRelative(loc.source)"
ConvertLoc(n) ==
  IF n # NoNode /\ Truthy(ast[n].source)
  THEN [ast EXCEPT ![n].source = _absoluteToRelative(@)]
  ELSE ast

\* the arguments after the conversion of every breakpoint's filePath
ConvertArgs(args) ==
  IF args.kind = "breakpoint"
  THEN [args EXCEPT !.breakpoints =
          [i \in 1..Len(args.breakpoints) |->
             [args.breakpoints[i] EXCEPT !.filePath = _absoluteToRelative(@)]]]
  ELSE args

(***************************************************************************)
(* The requests the front end may send.                                    *)
(***************************************************************************)
Bp(path, line, column) == [filePath |-> path, line |-> line, column |-> column]

BreakpointBatches ==
  {<<Bp(sourcemapPrefix \o <<"p", "p", "a">>, 2, 0), Bp(sourcemapPrefix \o <<"a">>, 1, 0)>>}

WrongArgs(command) ==
  IF KindOf(command) = "run"
  THEN Args("breakpoint", <<Bp(sourcemapPrefix \o <<"a">>, 1, 0)>>, 0, 0, "")
  ELSE Args("run", <<>>, 0, 0, "")

Requests ==
  {Request(1, c, Args("breakpoint", b, 0, 0, "")) :
     c \in BreakpointCommands, b \in BreakpointBatches}
  \cup {Request(1, c, Args(KindOf(c), <<>>, 0, 0, "")) :
          c \in ResumeCommands \cup {"stack-frames"}}
  \cup {Request(1, "scopes", Args("scopes", <<>>, f, 0, "")) : f \in (-1)..MaxFrameId}
  \cup {Request(1, "variables", Args("variables", <<>>, 0, h, "")) : h \in 1..MaxHandle}
  \cup {Request(1, "evaluate", Args("evaluate", <<>>, 0, 0, "x"))}
  \cup {Request(1, "bogus", Args("run", <<>>, 0, 0, ""))}
  \cup {Request(1, c, WrongArgs(c)) : c \in Commands}

\* the bounds of the model: a request that would exceed them is not sent
Bounded(request) ==
  (request.command = "scopes" /\ request.arguments.kind = "scopes"
     /\ ValidFrameId(request.arguments.frameId))
    => processScopesCommand(request.arguments.frameId).nextReference <= MaxHandle + 1

(***************************************************************************)
(* The last operation, kept for the statements below.                      *)
(***************************************************************************)
LastOp(op, request, node, severity, result, error) ==
  [op |-> op, request |-> request, node |-> node, severity |-> severity,
   result |-> result, error |-> error]

Unit(l, size) == [source |-> l.source, line |-> l.line, column |-> l.column, depth |-> size]
NoUnit == [source |-> <<>>, line |-> 0, column |-> 0, depth |-> -1]

(***************************************************************************)
(* Construction: the fields are set and waitForRun(undefined) is entered.  *)
(***************************************************************************)
\* the session the constructor leaves for a sourcemap prefix and a configured
\* diagnosticSeverity (NoSeverity when configArgs has none)
constructor(prefix, configured) ==
  /\ configArgs = [diagnosticSeverity |-> configured]
  /\ call = NoTranslation
  /\ sourcemapPrefix = prefix
  /\ diagnosticSeverity = IF configured = NoSeverity THEN "FatalError" ELSE configured
  /\ lastOp = LastOp("constructor", NoRequest, NoNode, configured, "", "")
  /\ ast = InitialAst
  /\ contextStack = <<>>
  /\ lastExecuted = NoMarker
  /\ breakpoints = {}
  /\ steppers = <<>>
  /\ references = NoReferences
  /\ nextReference = 1
  /\ pc = "waiting"
  /\ ip = 1
  /\ loc = NoNode
  /\ out = <<>>
  /\ prevUnit = NoUnit
  /\ stale = {}

Init == \E prefix \in Prefixes, configured \in {NoSeverity} : constructor(prefix, configured)

(***************************************************************************)
(* One iteration of waitForRun: read a request and process it.             *)
(***************************************************************************)
waitForRun(request) ==
  /\ pc = "waiting"
  /\ Bounded(request)
  /\ LET a == ConvertLoc(loc)
         converted == [request EXCEPT !.arguments = ConvertArgs(@)]
         eff == processDebuggerCommand(converted, a, LocIn(a, loc))
     IN  /\ ast' = a
         /\ breakpoints' = eff.breakpoints
         /\ steppers' = eff.steppers
         /\ references' = eff.references
         /\ nextReference' = eff.nextReference
         /\ out' = eff.out
         /\ pc' = CASE eff.result = "block" -> "waiting"
                    [] eff.result = "resume" -> "running"
                    [] OTHER -> "thrown"
         /\ loc' = IF eff.result = "block" THEN loc ELSE NoNode
         /\ lastOp' = LastOp("request", request, loc, "", eff.result, eff.error)
         /\ stale' = IF eff.result = "resume" THEN stale \cup DOMAIN references ELSE stale
  /\ UNCHANGED <<configArgs, call, sourcemapPrefix, diagnosticSeverity, contextStack, lastExecuted, ip,
                 prevUnit>>

(***************************************************************************)
(* Execution Checkpoint Hook.                                              *)
(***************************************************************************)
\* candidates to which the breakpoint lookup is pushed whatever it returned
StoppablesPushUnconditionally(l) == Reasons(CompletedSteppers(l)) \o <<"Breakpoint">>

\* the candidates of checkForActions at location l: completed steps, then the breakpoint
Stoppables(l) == Reasons(CompletedSteppers(l)) \o getStoppableBreakpoint(l)

\* the reason checkForActions stops for on a unit with location l, or NoReason
StopReason(l) ==
  IF _checkAndUpdateLastExecuted(l)
  THEN getDebuggeeStopReason(Stoppables(l))
  ELSE NoReason

AtEvent(event) == pc = "running" /\ ip <= Len(Program) /\ Program[ip].event = event

checkForActions(n) ==
  /\ AtEvent("checkpoint")
  /\ n = Program[ip].node
  /\ ip' = ip + 1
  /\ LET l == LocOf(n)
         reason == StopReason(l)
     IN  /\ lastExecuted' = LastExecutedAfter(l)
         /\ steppers' = IF _checkAndUpdateLastExecuted(l) THEN RemainingSteppers(l)
                        ELSE steppers
         /\ IF reason # NoReason
            THEN /\ out' = <<Stopped(reason, _relativeToAbsolute(l.source), l.line,
                                     l.column, NoMessage)>>
                 /\ pc' = "waiting"
                 /\ loc' = n
            ELSE /\ out' = <<>>
                 /\ UNCHANGED <<pc, loc>>
         /\ lastOp' = LastOp("checkForActions", NoRequest, n, "",
                             IF reason # NoReason THEN "stopped" ELSE "continue", "")
         /\ prevUnit' = Unit(l, Len(contextStack))
  /\ UNCHANGED <<configArgs, call, sourcemapPrefix, diagnosticSeverity, ast, contextStack, breakpoints,
                 references, nextReference, stale>>

(***************************************************************************)
(* Diagnostic-triggered pause.                                             *)
(***************************************************************************)
\* a message that leaves out the severity
DiagnosticMessageNoSeverity(severity, errorCode, message) == errorCode \o ": " \o message

DiagnosticMessage(severity, errorCode, message) ==
  severity \o " " \o errorCode \o ": " \o message

handlePrepackError(n, severity) ==
  /\ AtEvent("diagnostic")
  /\ n = Program[ip].node
  /\ ip' = ip + 1
  /\ LET location == LocOf(n)
         absoluteSource == IF location.source # NullSource
                           THEN _relativeToAbsolute(location.source)
                           ELSE <<>>
     IN  IF ~location.defined
         THEN /\ out' = <<>>
              /\ pc' = "thrown"
              /\ loc' = loc
              /\ lastOp' = LastOp("handlePrepackError", NoRequest, n, severity,
                                  "InvariantViolation", "Invariant Violation")
         ELSE /\ out' = <<Stopped("Diagnostic", absoluteSource, location.line,
                                  location.column,
                                  DiagnosticMessage(severity, "PP0001", "m"))>>
              /\ pc' = "waiting"
              /\ loc' = n
              /\ lastOp' = LastOp("handlePrepackError", NoRequest, n, severity,
                                  "stopped", "")
  /\ UNCHANGED <<configArgs, call, sourcemapPrefix, diagnosticSeverity, ast, contextStack, lastExecuted,
                 breakpoints, steppers, references, nextReference, prevUnit, stale>>

(***************************************************************************)
(* Stop Severity Policy.                                                   *)
(***************************************************************************)
\* a switch whose "RecoverableError" case forgets the fatal errors
StopForSeverityForgetsFatal(threshold, severity) ==
  CASE threshold = "Information" -> TRUE
    [] threshold = "Warning" -> severity # "Information"
    [] threshold = "RecoverableError" -> severity = "RecoverableError"
    [] threshold = "FatalError" -> severity = "FatalError"

\* a switch whose "Warning" case stops for everything but warnings
StopForSeverityWrongWarning(threshold, severity) ==
  CASE threshold = "Information" -> TRUE
    [] threshold = "Warning" -> severity # "Warning"
    [] threshold = "RecoverableError" ->
         severity = "RecoverableError" \/ severity = "FatalError"
    [] threshold = "FatalError" -> severity = "FatalError"

\* the switch of shouldStopForSeverity on a value of this._diagnosticSeverity
StopForSeverity(threshold, severity) ==
  CASE threshold = "Information" -> TRUE
    [] threshold = "Warning" -> severity # "Information"
    [] threshold = "RecoverableError" ->
         severity = "RecoverableError" \/ severity = "FatalError"
    [] threshold = "FatalError" -> severity = "FatalError"

shouldStopForSeverity(severity) == StopForSeverity(diagnosticSeverity, severity)

ShouldStop(severity) ==
  /\ pc = "running"
  /\ out' = <<>>
  /\ lastOp' = LastOp("shouldStopForSeverity", NoRequest, NoNode, severity,
                      IF shouldStopForSeverity(severity) THEN "true" ELSE "false", "")
  /\ UNCHANGED <<configArgs, call, sourcemapPrefix, diagnosticSeverity, ast, contextStack, lastExecuted,
                 breakpoints, steppers, references, nextReference, pc, ip, loc,
                 prevUnit, stale>>

shutdown ==
  /\ pc = "running"
  /\ ip > Len(Program)
  /\ pc' = "shutdown"
  /\ out' = <<>>
  /\ lastOp' = LastOp("shutdown", NoRequest, NoNode, "", "", "")
  /\ UNCHANGED <<configArgs, call, sourcemapPrefix, diagnosticSeverity, ast, contextStack, lastExecuted,
                 breakpoints, steppers, references, nextReference, ip, loc, prevUnit, stale>>

(***************************************************************************)
(* The engine between checkpoints: calls and returns.                      *)
(***************************************************************************)
PushContext(frame) ==
  /\ AtEvent("call")
  /\ frame = Program[ip].frame
  /\ ip' = ip + 1
  /\ contextStack' = Append(contextStack, frame)
  /\ out' = <<>>
  /\ lastOp' = LastOp("push", NoRequest, NoNode, "", "", "")
  /\ UNCHANGED <<configArgs, call, sourcemapPrefix, diagnosticSeverity, ast, lastExecuted, breakpoints,
                 steppers, references, nextReference, pc, loc, prevUnit, stale>>

PopContext ==
  /\ AtEvent("return")
  /\ ip' = ip + 1
  /\ contextStack' = SubSeq(contextStack, 1, Len(contextStack) - 1)
  /\ out' = <<>>
  /\ lastOp' = LastOp("pop", NoRequest, NoNode, "", "", "")
  /\ UNCHANGED <<configArgs, call, sourcemapPrefix, diagnosticSeverity, ast, lastExecuted, breakpoints,
                 steppers, references, nextReference, pc, loc, prevUnit, stale>>

\* the engine reaches the place of a diagnostic and reports none
NoDiagnostic ==
  /\ AtEvent("diagnostic")
  /\ ip' = ip + 1
  /\ out' = <<>>
  /\ lastOp' = LastOp("none", NoRequest, NoNode, "", "", "")
  /\ UNCHANGED <<configArgs, call, sourcemapPrefix, diagnosticSeverity, ast, contextStack, lastExecuted,
                 breakpoints, steppers, references, nextReference, pc, loc, prevUnit, stale>>

Next ==
  \/ \E request \in Requests : waitForRun(request)
  \/ \E n \in Nodes \cup {NoNode} : checkForActions(n)
  \/ \E n \in Nodes \cup {NoNode}, severity \in Severities : handlePrepackError(n, severity)
  \/ \E severity \in Severities : ShouldStop(severity)
  \/ \E frame \in {GlobalFrame, FunctionFrame} : PushContext(frame)
  \/ PopContext
  \/ NoDiagnostic
  \/ shutdown

Spec == Init /\ [][Next]_vars

(***************************************************************************)
(* The helpers on their own: a session constructed with any prefix and any *)
(* configured severity, in which the path translations are called on       *)
(* paths over the letters "p" and "a", on fresh arguments or on the result *)
(* of the call before, and the engine asks shouldStopForSeverity.          *)
(***************************************************************************)
Letters == {"p", "a"}
PathsOfLength(n) == [1..n -> Letters]
Paths == UNION {PathsOfLength(n) : n \in 0..MaxPathLen}
PathPrefixes == UNION {PathsOfLength(n) : n \in 0..MaxPrefixLen}

RelativeToAbsolute(path, chained) ==
  /\ chained => (call.op = "_absoluteToRelative" /\ path = call.ret)
  /\ call' = Translation("_relativeToAbsolute", path, _relativeToAbsolute(path),
                         IF chained THEN call.op ELSE "",
                         IF chained THEN call.arg ELSE <<>>)
  /\ UNCHANGED <<configArgs, sourcemapPrefix, diagnosticSeverity, ast, contextStack,
                 lastExecuted, breakpoints, steppers, references, nextReference, pc,
                 ip, loc, out, lastOp, prevUnit, stale>>

AbsoluteToRelative(path, chained) ==
  /\ chained => (call.op # "" /\ path = call.ret)
  /\ call' = Translation("_absoluteToRelative", path, _absoluteToRelative(path),
                         IF chained THEN call.op ELSE "",
                         IF chained THEN call.arg ELSE <<>>)
  /\ UNCHANGED <<configArgs, sourcemapPrefix, diagnosticSeverity, ast, contextStack,
                 lastExecuted, breakpoints, steppers, references, nextReference, pc,
                 ip, loc, out, lastOp, prevUnit, stale>>

RunRequest == Request(1, "run", Args("run", <<>>, 0, 0, ""))

InitHelpers ==
  \E prefix \in PathPrefixes, configured \in Severities \cup {NoSeverity} :
    constructor(prefix, configured)

NextHelpers ==
  \/ \E request \in {RunRequest} : waitForRun(request)
  \/ \E severity \in Severities : ShouldStop(severity)
  \/ \E path \in Paths : RelativeToAbsolute(path, FALSE)
  \/ RelativeToAbsolute(call.ret, TRUE)
  \/ \E path \in Paths : AbsoluteToRelative(path, FALSE)
  \/ AbsoluteToRelative(call.ret, TRUE)

SpecHelpers == InitHelpers /\ [][NextHelpers]_vars

(***************************************************************************)
(* Statements about the debug server.                                      *)
(***************************************************************************)
IsCheckpoint == AtEvent("checkpoint")
CheckedUnit == LocOf(Program[ip].node)
IsRequest == lastOp.op = "request"
Command == lastOp.request.command

\* l at the current depth is not the unit the marker records
NonDuplicate(l) == HasSource(l) /\ Marker(l, Len(contextStack)) # lastExecuted

BreakpointAt(l) ==
  \E b \in breakpoints :
    b.enabled /\ b.filePath = l.source /\ b.line = l.line /\ b.column = l.column

\* C1: in a run of consecutive checkForActions calls on units with the same
\* (file, line, column, call-stack depth), every call after the first sends no
\* stopped notification, leaves the engine running and leaves the Last-Executed
\* Marker as it was.
C1_RepeatedCheckpoint ==
  [][(IsCheckpoint /\ lastOp'.op = "checkForActions" /\ prevUnit' = prevUnit)
       => (out' = <<>> /\ pc' = "running" /\ lastExecuted' = lastExecuted)]_vars

\* a repeated checkpoint on a unit that carries an enabled breakpoint went by silently
C1_Witness ==
  /\ lastOp.op = "checkForActions"
  /\ lastOp.result = "continue"
  /\ prevUnit = Unit(LocOf(lastOp.node), Len(contextStack))
  /\ BreakpointAt(LocOf(lastOp.node))
  /\ out = <<>>

\* C2: a non-duplicate checkpoint at (f, l, c) that matches an enabled breakpoint
\* sends exactly one stopped notification with the arbiter's reason, path
\* prefix + f, line l and column c, and blocks in the command loop with that
\* location as context; while the loop is blocked the engine does not move, and
\* it runs again only when a resume-class command has been read.
C2_StopAtBreakpoint ==
  [][/\ (IsCheckpoint /\ lastOp'.op = "checkForActions"
           /\ NonDuplicate(CheckedUnit) /\ BreakpointAt(CheckedUnit))
          => /\ out' = <<Stopped(getDebuggeeStopReason(Stoppables(CheckedUnit)),
                                 sourcemapPrefix \o CheckedUnit.source,
                                 CheckedUnit.line, CheckedUnit.column, NoMessage)>>
             /\ out'[1].reason # NoReason
             /\ pc' = "waiting"
             /\ loc' = Program[ip].node
     /\ pc = "waiting"
          => /\ ip' = ip
             /\ contextStack' = contextStack
             /\ pc' = "running" => lastOp'.request.command \in ResumeCommands]_vars

\* the engine is blocked at node 1 on a breakpoint reported under the prefix "p"
C2_Witness ==
  /\ lastOp.op = "checkForActions"
  /\ lastOp.result = "stopped"
  /\ sourcemapPrefix = <<"p">>
  /\ out = <<Stopped("Breakpoint", <<"p", "a">>, 1, 0, NoMessage)>>
  /\ pc = "waiting"
  /\ loc = 1

\* the last request was one that processDebuggerCommand rejects: an unrecognized
\* command, arguments of the wrong kind, a frame id outside the call stack, or a
\* step while no current location is known
Failing ==
  \/ Command \notin Commands
  \/ Command \notin StepCommands /\ lastOp.request.arguments.kind # KindOf(Command)
  \/ /\ Command = "scopes"
     /\ \/ lastOp.request.arguments.frameId < 0
        \/ lastOp.request.arguments.frameId >= Len(contextStack)
  \/ Command \in StepCommands /\ lastOp.node = NoNode

\* C3 (as amended): the engine runs again only after a resume-class command that
\* was processed without error; after a breakpoint, stack-frames, scopes,
\* variables or evaluate request that is processed without error the loop is
\* still blocked on the same location; a failing request does not resume the
\* engine but ends the loop, its error leaving waitForRun.
C3_BlockedUntilResume ==
  IsRequest =>
    /\ pc = "running" => (Command \in ResumeCommands /\ ~Failing)
    /\ (Command \notin ResumeCommands /\ ~Failing) => (pc = "waiting" /\ loc = lastOp.node)
    /\ Failing => pc = "thrown"

\* C3 as stated: after any request that is not resume-class, failing ones
\* included, the loop is still blocked reading the channel.
C3_Original ==
  (IsRequest /\ Command \notin ResumeCommands) => (pc = "waiting" /\ loc = lastOp.node)

\* the loop is still blocked at a location after breakpoints were set, scopes
\* were listed and an expression was evaluated
C3_Witness ==
  /\ IsRequest
  /\ Command = "evaluate"
  /\ breakpoints # {}
  /\ references # NoReferences
  /\ pc = "waiting"
  /\ loc # NoNode

\* C4 (as amended): a request that is processed without error sends exactly one
\* message, a response carrying its id, except run and step-in/over/out, which
\* send none; a failing request sends none either.
C4_OneMessagePerRequest ==
  IsRequest =>
    IF Command \in ResumeCommands \/ Failing
    THEN out = <<>>
    ELSE /\ Len(out) = 1
         /\ out[1].type # "stopped"
         /\ out[1].id = lastOp.request.id

\* C4 as stated: every request that is not run or step-in/over/out sends exactly
\* one message, unrecognized commands and out-of-range scopes requests included.
C4_Original ==
  IsRequest => Len(out) = (IF Command \in ResumeCommands THEN 0 ELSE 1)

\* a scopes request whose frame id is the stack length was rejected without a message
C4_Witness ==
  /\ IsRequest
  /\ Command = "scopes"
  /\ lastOp.request.arguments.kind = "scopes"
  /\ lastOp.request.arguments.frameId = Len(contextStack)
  /\ lastOp.result = "DebuggerError"
  /\ out = <<>>

\* C5 (as amended): a request with an unrecognized command fails with a protocol
\* error naming the command, sends nothing and changes no collaborator; the
\* error leaves waitForRun, and nothing is read or processed after it.
C5_UnrecognizedCommand ==
  [][/\ (pc = "waiting" /\ lastOp'.op = "request"
           /\ lastOp'.request.command \notin Commands)
          => /\ pc' = "thrown"
             /\ lastOp'.result = "DebuggerError"
             /\ lastOp'.error = "Invalid command from adapter: " \o lastOp'.request.command
             /\ out' = <<>>
             /\ UNCHANGED <<breakpoints, steppers, references, nextReference,
                            lastExecuted, contextStack>>
     /\ pc # "thrown"]_vars

\* C5 as stated: after an unrecognized command the same waitForRun invocation
\* is still reading the channel.
C5_Original ==
  (IsRequest /\ Command \notin Commands) => pc = "waiting"

\* the command "bogus" was rejected by name and the loop was left by the error
C5_Witness ==
  /\ IsRequest
  /\ Command = "bogus"
  /\ lastOp.error = "Invalid command from adapter: bogus"
  /\ pc = "thrown"

\* C6: a step-in/over/out request processed while no current location is known
\* raises an invariant violation, registers no step, clears no handle, sends
\* nothing and does not resume; with a known location it leaves exactly one
\* registered step, with the matching direction, the (converted) location as
\* origin and the current depth, clears the reference table and resumes.
C6_StepNeedsLocation ==
  [][(pc = "waiting" /\ lastOp'.op = "request"
        /\ lastOp'.request.command \in StepCommands)
       => IF loc = NoNode
          THEN /\ pc' = "thrown"
               /\ lastOp'.result = "InvariantViolation"
               /\ out' = <<>>
               /\ UNCHANGED <<steppers, references, nextReference>>
          ELSE /\ pc' = "running"
               /\ steppers' = <<[direction |-> Direction(lastOp'.request.command),
                                 source |-> ast'[loc].source,
                                 line |-> ast'[loc].line,
                                 column |-> ast'[loc].column,
                                 stackSize |-> Len(contextStack)]>>
               /\ references' = NoReferences
               /\ out' = <<>>]_vars

\* a step was requested in the loop entered from the constructor
C6_Witness ==
  /\ IsRequest
  /\ Command \in StepCommands
  /\ lastOp.node = NoNode
  /\ ip = 1
  /\ lastOp.result = "InvariantViolation"
  /\ pc = "thrown"
  /\ steppers = <<>>

\* C7: while the engine runs the variable-reference table is empty (every resume
\* clears it whole), and a variables request that uses a handle issued by a
\* scopes request before the last run or step-in/over/out command is answered
\* with an empty list.
C7_HandlesInvalidatedOnResume ==
  /\ pc = "running" => references = NoReferences
  /\ (IsRequest /\ Command = "variables" /\ lastOp.request.arguments.kind = "variables"
        /\ lastOp.request.arguments.variablesReference \in stale)
       => out = <<VariablesResponse(lastOp.request.id, <<>>)>>

\* in a later pause, where scopes were listed again, a handle of an earlier
\* pause was used
C7_Witness ==
  /\ IsRequest
  /\ Command = "variables"
  /\ lastOp.request.arguments.variablesReference \in stale
  /\ references # NoReferences
  /\ out = <<VariablesResponse(lastOp.request.id, <<>>)>>

StepReasons == {"Step Into", "Step Over", "Step Out"}

\* C8: a registered step is one-shot.  A non-duplicate checkpoint removes every
\* step it satisfies; a stopped notification with a step reason is sent only by
\* a checkpoint that removes a step; nothing but a step command adds a step; and
\* a checkpoint that repeats the previous unit leaves the step registry as it is
\* and sends nothing.
C8_StepOneShot ==
  [][/\ (IsCheckpoint /\ lastOp'.op = "checkForActions")
          => /\ NonDuplicate(CheckedUnit)
                  => \A i \in 1..Len(steppers) :
                       isComplete(steppers[i], CheckedUnit, Len(contextStack))
                         => \A j \in 1..Len(steppers') : steppers'[j] # steppers[i]
             /\ (out' # <<>> /\ out'[1].reason \in StepReasons)
                  => Len(steppers') < Len(steppers)
             /\ prevUnit' = prevUnit => (steppers' = steppers /\ out' = <<>>)
     /\ lastOp'.op # "request" => Len(steppers') <= Len(steppers)]_vars

\* a step-over was satisfied: the engine stopped for it and the registry is empty
C8_Witness ==
  /\ lastOp.op = "checkForActions"
  /\ Len(out) = 1
  /\ out[1].reason = "Step Over"
  /\ steppers = <<>>
  /\ pc = "waiting"

\* C9: with no breakpoint registered and no step in flight a checkpoint sends
\* nothing and does not enter the command loop: the engine keeps running.
C9_NothingArmed ==
  [][(IsCheckpoint /\ lastOp'.op = "checkForActions"
        /\ breakpoints = {} /\ steppers = <<>>)
       => (out' = <<>> /\ pc' = "running" /\ loc' = loc)]_vars

\* the engine ran the program's checkpoints up to the last one with nothing armed
C9_Witness ==
  /\ lastOp.op = "checkForActions"
  /\ ip = 16
  /\ breakpoints = {}
  /\ steppers = <<>>
  /\ lastExecuted = Marker(LocOf(1), 1)
  /\ pc = "running"

\* C10: a stack-frames request over a call stack of depth N sends one response
\* with exactly N frames whose ids are 0, 1, ..., N-1 in that order, and the frame
\* with id k names the function of call-stack slot N-1-k.
C10_StackFrames ==
  (IsRequest /\ Command = "stack-frames" /\ lastOp.request.arguments.kind = "stackframe")
    => /\ Len(out) = 1
       /\ out[1].type = "stackframes-response"
       /\ Len(out[1].stackframes) = Len(contextStack)
       /\ \A k \in 0..(Len(contextStack) - 1) :
            /\ out[1].stackframes[k + 1].id = k
            /\ out[1].stackframes[k + 1].functionName
                 = FunctionName(contextStack[Len(contextStack) - k])

\* two frames were listed: f on top with id 0, the anonymous caller with id 1
C10_Witness ==
  /\ IsRequest
  /\ Command = "stack-frames"
  /\ Len(contextStack) = 2
  /\ Len(out) = 1
  /\ out[1].stackframes[1].id = 0
  /\ out[1].stackframes[1].functionName = "f"
  /\ out[1].stackframes[2].id = 1
  /\ out[1].stackframes[2].functionName = "(anonymous function)"

\* the environments from env outwards along the parent links
RECURSIVE EnvChain(_)
EnvChain(env) == IF env = NoEnv THEN <<>> ELSE <<env>> \o EnvChain(EnvParent[env])

\* C11 (as amended): a scopes request with frame id f over a call stack of depth
\* N, if 0 <= f < N, is answered with one scope per environment of the chain of
\* call-stack slot N-1-f, innermost first, each with a handle registered for
\* that environment, and the loop stays blocked; if f < 0 or f >= N it fails
\* with an invalid-frame-id error naming f, registers no handle and sends
\* nothing, and the error leaves waitForRun: nothing is read after it.
C11_ScopesFrameId ==
  [][(pc = "waiting" /\ lastOp'.op = "request" /\ lastOp'.request.command = "scopes"
        /\ lastOp'.request.arguments.kind = "scopes")
       => LET f == lastOp'.request.arguments.frameId
              N == Len(contextStack)
              chain == EnvChain(contextStack[N - f].lexicalEnvironment)
          IN  IF 0 <= f /\ f < N
              THEN /\ pc' = "waiting"
                   /\ Len(out') = 1
                   /\ out'[1].type = "scopes-response"
                   /\ Len(out'[1].scopes) = Len(chain)
                   /\ \A i \in 1..Len(chain) :
                        /\ out'[1].scopes[i].name = _getScopeName(chain[i])
                        /\ references'[out'[1].scopes[i].variablesReference] = chain[i]
              ELSE /\ lastOp'.result = "DebuggerError"
                   /\ lastOp'.error = "Invalid frame id for scopes request: " \o ToString(f)
                   /\ out' = <<>>
                   /\ references' = references
                   /\ nextReference' = nextReference
                   /\ pc' = "thrown"]_vars

\* C11 as stated: after a scopes request with a frame id out of range the same
\* waitForRun invocation is still reading the channel.
C11_Original ==
  (IsRequest /\ Command = "scopes" /\ lastOp.request.arguments.kind = "scopes"
     /\ ~ValidFrameId(lastOp.request.arguments.frameId))
    => pc = "waiting"

\* over a call stack of depth 2 the frame id 2 was rejected by name, with the
\* handles of an earlier scopes request still the only ones
C11_Witness ==
  /\ IsRequest
  /\ Command = "scopes"
  /\ Len(contextStack) = 2
  /\ lastOp.request.arguments.frameId = 2
  /\ lastOp.error = "Invalid frame id for scopes request: 2"
  /\ references # NoReferences
  /\ nextReference = Len(references) + 1
  /\ pc = "thrown"

\* what a stack frame is said to show for a location: the location in absolute
\* form, or the sentinel ("unknown", 0, 0) when there is no location with a source
Shown(l) ==
  IF HasSource(l)
  THEN [fileName |-> sourcemapPrefix \o l.source, line |-> l.line, column |-> l.column]
  ELSE [fileName |-> Unknown, line |-> 0, column |-> 0]

ShownBy(frameInfo) ==
  [fileName |-> frameInfo.fileName, line |-> frameInfo.line, column |-> frameInfo.column]

\* C12: in a stack-frames response frame 0 shows the current location of the
\* pause, or the sentinel ("unknown", 0, 0) when none is known; every frame with
\* id k >= 1 shows the invocation location recorded on the call-stack entry of
\* frame k-1, or the sentinel when that entry has no location with a source.
C12_Original ==
  (IsRequest /\ Command = "stack-frames" /\ lastOp.request.arguments.kind = "stackframe")
    => \A k \in 0..(Len(contextStack) - 1) :
         ShownBy(out[1].stackframes[k + 1])
           = Shown(IF k = 0 THEN LocOf(lastOp.node)
                   ELSE LocOf(contextStack[Len(contextStack) - k + 1].loc))

\* C13: path round trip.  A path that starts with the sourcemap prefix, made
\* relative and then absolute again, is the path itself; any path, made absolute
\* and then relative again, is the path itself, whatever the prefix (the empty
\* prefix included).
C13_PathRoundTrip ==
  /\ (call.op = "_relativeToAbsolute" /\ call.prevOp = "_absoluteToRelative"
        /\ StartsWith(call.prevArg, sourcemapPrefix))
       => call.ret = call.prevArg
  /\ (call.op = "_absoluteToRelative" /\ call.prevOp = "_relativeToAbsolute")
       => call.ret = call.prevArg

\* under the prefix "pa" the relative path "pap", which itself starts with the
\* prefix, was made absolute ("papap") and came back as "pap"
C13_Witness ==
  /\ sourcemapPrefix = <<"p", "a">>
  /\ call.op = "_absoluteToRelative"
  /\ call.prevOp = "_relativeToAbsolute"
  /\ call.prevArg = <<"p", "a", "p">>
  /\ call.arg = <<"p", "a", "p", "a", "p">>
  /\ call.ret = <<"p", "a", "p">>

\* the file paths a message carries
PathsIn(message) ==
  CASE message.type = "stopped" -> {message.filePath}
    [] message.type = "stackframes-response" ->
         {message.stackframes[i].fileName : i \in 1..Len(message.stackframes)}
    [] message.type \in {Acknowledge(c) : c \in BreakpointCommands} ->
         {message.breakpoints[i].filePath : i \in 1..Len(message.breakpoints)}
    [] OTHER -> {}

\* the relative paths of the program's locations
RelativePaths == {InitialAst[n].source : n \in {m \in Nodes : HasSource(InitialAst[m])}}

\* C14: every file path in every outbound message (stopped notifications,
\* stack-frame responses, breakpoint acknowledgments) is in absolute form, that
\* is, carries the sourcemap prefix, and every path held by the breakpoint and
\* step collaborators is in relative form, after any sequence of requests and
\* checkpoints.
C14_Original ==
  /\ \A i \in 1..Len(out) : \A path \in PathsIn(out[i]) : StartsWith(path, sourcemapPrefix)
  /\ \A b \in breakpoints : b.filePath \in RelativePaths
  /\ \A i \in 1..Len(steppers) : steppers[i].source \in RelativePaths

\* the order Information < Warning < RecoverableError < FatalError
Rank(severity) ==
  CASE severity = "Information" -> 1
    [] severity = "Warning" -> 2
    [] severity = "RecoverableError" -> 3
    [] severity = "FatalError" -> 4

\* the threshold of the session: the configured one, FatalError when none is
Threshold ==
  IF configArgs.diagnosticSeverity = NoSeverity
  THEN "FatalError"
  ELSE configArgs.diagnosticSeverity

\* C15: shouldStopForSeverity(s) returns true iff s is at or above the session
\* threshold in the order Information < Warning < RecoverableError < FatalError,
\* for each of the 16 (threshold, severity) pairs; when no threshold is
\* configured the threshold is FatalError, so only FatalError stops.
C15_StopForSeverity ==
  /\ diagnosticSeverity = Threshold
  /\ \A severity \in Severities :
       shouldStopForSeverity(severity) <=> Rank(severity) >= Rank(Threshold)
  /\ lastOp.op = "shouldStopForSeverity"
       => /\ lastOp.result = "true" <=> Rank(lastOp.severity) >= Rank(Threshold)
          /\ configArgs.diagnosticSeverity = NoSeverity
               => (lastOp.result = "true" <=> lastOp.severity = "FatalError")

\* in a session with no configured threshold the engine asked about a
\* recoverable error and was told not to stop
C15_Witness ==
  /\ configArgs.diagnosticSeverity = NoSeverity
  /\ lastOp.op = "shouldStopForSeverity"
  /\ lastOp.severity = "RecoverableError"
  /\ lastOp.result = "false"

\* the severities a threshold stops for
StopSet(threshold) == {severity \in Severities : StopForSeverity(threshold, severity)}

\* C16: severity monotonicity.  The stop sets of the four thresholds form a
\* chain under inclusion, the lower threshold stopping for more; so whenever
\* the session's threshold stops for the severity asked about, every threshold
\* whose stop set includes the session's, and every lower threshold, stops for
\* it too.
C16_SeverityMonotone ==
  /\ \A t1, t2 \in Severities :
       /\ StopSet(t1) \subseteq StopSet(t2) \/ StopSet(t2) \subseteq StopSet(t1)
       /\ Rank(t1) >= Rank(t2) => StopSet(t1) \subseteq StopSet(t2)
  /\ (lastOp.op = "shouldStopForSeverity" /\ lastOp.result = "true")
       => \A t2 \in Severities :
            (StopSet(diagnosticSeverity) \subseteq StopSet(t2)
               \/ Rank(t2) <= Rank(diagnosticSeverity))
              => StopForSeverity(t2, lastOp.severity)

\* under the threshold RecoverableError the engine asked about a recoverable
\* error and was told to stop; the thresholds Warning and Information stop too
C16_Witness ==
  /\ diagnosticSeverity = "RecoverableError"
  /\ lastOp.op = "shouldStopForSeverity"
  /\ lastOp.severity = "RecoverableError"
  /\ lastOp.result = "true"
  /\ StopForSeverity("Warning", lastOp.severity)
  /\ ~StopForSeverity("FatalError", lastOp.severity)

\* C17: for every one of the twelve commands, a request whose arguments kind
\* does not match the command raises an internal-invariant violation: no
\* collaborator is updated, no message is sent and the engine is not resumed.
C17_Original ==
  [][(pc = "waiting" /\ lastOp'.op = "request"
        /\ lastOp'.request.command \in Commands
        /\ lastOp'.request.arguments.kind # KindOf(lastOp'.request.command))
       => /\ lastOp'.result = "InvariantViolation"
          /\ UNCHANGED <<breakpoints, steppers, references, nextReference>>
          /\ out' = <<>>
          /\ pc' # "running"]_vars

\* the command loop is blocked in a pause that handlePrepackError entered
PausedOnDiagnostic == pc = "waiting" /\ ip > 1 /\ Program[ip - 1].event = "diagnostic"

\* C18: handlePrepackError on a diagnostic with a location sends exactly one
\* stopped notification with reason "Diagnostic", the absolute form of the
\* location's source (the empty path when the source is null), its line and
\* column and the message "<severity> <errorCode>: <text>", and blocks in the
\* command loop with the diagnostic's location as context; during that pause
\* the engine does not move and the context stays, and the engine runs again
\* only when a resume-class command has been read.  On a diagnostic without a
\* location it raises an invariant violation and sends nothing.
C18_DiagnosticPause ==
  [][/\ (AtEvent("diagnostic") /\ lastOp'.op = "handlePrepackError")
          => IF Program[ip].node # NoNode
             THEN /\ out' = <<Stopped("Diagnostic",
                                      IF LocOf(Program[ip].node).source # NullSource
                                      THEN sourcemapPrefix \o LocOf(Program[ip].node).source
                                      ELSE <<>>,
                                      LocOf(Program[ip].node).line,
                                      LocOf(Program[ip].node).column,
                                      lastOp'.severity \o " PP0001: m")>>
                  /\ pc' = "waiting"
                  /\ loc' = Program[ip].node
             ELSE /\ lastOp'.result = "InvariantViolation"
                  /\ out' = <<>>
                  /\ pc' = "thrown"
     /\ PausedOnDiagnostic
          => /\ ip' = ip
             /\ contextStack' = contextStack
             /\ loc = Program[ip - 1].node
             /\ pc' = "waiting" => loc' = loc
             /\ pc' = "running" => lastOp'.request.command \in ResumeCommands]_vars

\* a warning at node 2 was reported under the prefix "p" and the loop is
\* blocked on that location
C18_Witness ==
  /\ lastOp.op = "handlePrepackError"
  /\ lastOp.node = 2
  /\ sourcemapPrefix = <<"p">>
  /\ out = <<Stopped("Diagnostic", <<"p", "p", "p", "a">>, 2, 0, "Warning PP0001: m")>>
  /\ pc = "waiting"
  /\ loc = 2

\* C19: the Last-Executed Marker is changed only by checkForActions: processing
\* a request, handling a diagnostic and evaluating shouldStopForSeverity leave
\* it as it is (as do the engine's own steps), and a checkForActions call on a
\* unit with no location, or with a location that has no source, leaves it as
\* it is and sends nothing, whatever breakpoints and steps are registered.
C19_MarkerFrame ==
  [][/\ lastOp'.op \in {"request", "handlePrepackError", "shouldStopForSeverity"}
          => lastExecuted' = lastExecuted
     /\ lastExecuted' # lastExecuted => (IsCheckpoint /\ lastOp'.op = "checkForActions")
     /\ (IsCheckpoint /\ lastOp'.op = "checkForActions"
           /\ (Program[ip].node = NoNode \/ CheckedUnit.source = NullSource))
          => /\ lastExecuted' = lastExecuted
             /\ out' = <<>>
             /\ pc' = "running"
             /\ steppers' = steppers]_vars

\* with a step-in in flight the engine checked the unit whose location has no
\* source: the marker still names the unit before and the step is still there
C19_Witness ==
  /\ lastOp.op = "checkForActions"
  /\ lastOp.node = 3
  /\ lastExecuted.set
  /\ lastExecuted.filePath # NullSource
  /\ Len(steppers) = 1
  /\ steppers[1].direction = "in"
  /\ out = <<>>
  /\ pc = "running"

\* C20: within one pause the source of the current location that a request is
\* dispatched with does not depend on how many requests were processed before:
\* the k-th request of the pause sees the source the first one saw.
C20_Original ==
  [][(pc = "waiting" /\ IsRequest /\ loc # NoNode
        /\ pc' = "waiting" /\ lastOp'.op = "request")
       => ast'[loc].source = ast[loc].source]_vars

====
